---- MODULE Spec2Model ----
(***************************************************************************)
(* Model of watson_gui.py: the ComboboxList tag list, the TimerLabelUpdater *)
(* start time, the Start/Stop buttons and the command handlers that drive   *)
(* the external `watson` tool.  Tk runs every handler to completion on one  *)
(* thread, so each handler is one action; the external calls a handler      *)
(* makes are recorded, in order, in `calls`.                                *)
(***************************************************************************)
EXTENDS Integers, Sequences, FiniteSets, TLC

\* ---------------------------------------------------------------- bounds
MaxSlots == 3
MaxWall == 1

\* ---------------------------------------------------------------- domains
\* Text a user can put into a tag combobox.
TagTexts == {"", "x", "y"}
\* Text a user can put into the project combobox.
ProjectTexts == {"", "Alpha"}
\* Outputs of `watson projects` / `watson tags` after splitlines().
ProjectLists == {<< >>, <<"Alpha">>}
\* splitlines() keeps a blank line of the output as an empty label.
TagLists == {<< >>, <<"x", "">>}
\* Outputs of `watson log` / `watson report --csv`.
ReportTexts == {"report"}

\* A parenthesised group in the status output: a well-formed timestamp
\* (wall-clock reading plus UTC offset) or text strptime rejects.
Timestamps == [wall : 1..MaxWall, tz : {"+0100"}]
Junk == [junk |-> TRUE]
GroupVals == Timestamps \cup {Junk}
\* Lengths of the list re.findall returns: none, the single one the code
\* expects, and more than one (the code tests only len(time_result) != 1).
GroupCounts == {0, 1, 2}
GroupSeqs == UNION {[1..n -> GroupVals] : n \in GroupCounts}
\* Output of `watson status`: whether it contains "No project started",
\* and the parenthesised groups re.findall(r'\(.*?\)') finds, in order.
StatusOutputs == [marker : BOOLEAN, groups : GroupSeqs]

\* Optional[datetime]
None == [kind |-> "None"]
Datetime(w) == [kind |-> "datetime", wall |-> w]

\* Readings of datetime.now(): whole seconds and microseconds.  Every
\* reading is later than any start time the status query can report.
ClockReadings == [sec : {MaxWall + 125, MaxWall + 90061}, usec : {0, 500000}]

VARIABLES
    comboboxes,       \* ComboboxList.comboboxes: the widgets, in slot order
    combobox_values,  \* ComboboxList.combobox_values: the StringVar contents
    options,          \* ComboboxList.options
    project,          \* project_combo text
    project_options,  \* project_combo["values"]
    start_at,         \* start_at_combo.current(): 0 "Now", 1 "Last stop time"
    start_time,       \* time_label_updater.start_time
    start_enabled,    \* start_button state is "normal"
    stop_enabled,     \* stop_button state is "normal"
    label,            \* time_label text, as rendered by the last tick
    pending,          \* number of scheduled _update_label callbacks
    calls,            \* external operations issued by the last handler
    raised,           \* how the last handler ended
    ev                \* the last event delivered by the event loop

vars == <<comboboxes, combobox_values, options, project,
          project_options, start_at, start_time, start_enabled, stop_enabled,
          label, pending, calls, raised, ev>>

listVars == <<comboboxes, combobox_values, options>>
ctlVars == <<start_time, start_enabled, stop_enabled>>
timerVars == <<label, pending>>

\* ---------------------------------------------------------------- helpers
Last(s) == s[Len(s)]

\* del s[index]
RemoveAt(s, i) == [j \in 1..(Len(s) - 1) |-> IF j < i THEN s[j] ELSE s[j + 1]]

\* ttk.Combobox(self, values=...): a widget with its drop-down entries
Combobox(values) == [values |-> values]

\* combobox.get() of every widget, in slot order.  The text of a widget is
\* the content of its textvariable, the StringVar appended to
\* combobox_values when the widget was appended to comboboxes.
SlotTexts == [i \in 1..Len(comboboxes) |-> combobox_values[i]]

\* ---------------------------------------------------------------- ComboboxList
\* set_options storing the list but not updating the existing comboboxes
set_options_new_only(opts) ==
    /\ options' = opts
    /\ comboboxes' = comboboxes

\* set_options updating the comboboxes but not storing the list
set_options_not_stored(opts) ==
    /\ options' = options
    /\ comboboxes' = [i \in DOMAIN comboboxes |-> Combobox(opts)]

\* ComboboxList.set_options
set_options(opts) ==
    /\ options' = opts
    /\ comboboxes' = [i \in DOMAIN comboboxes |-> Combobox(opts)]

\* The None object as seen by `combobox.get() != None`: get() returns a
\* str, and no str equals None.
PyNone == "<None>"

\* ComboboxList.get_values
get_values == SelectSeq(SlotTexts, LAMBDA v : v # PyNone)

\* _add_item building the new combobox without the list's options
_add_item_no_options(vals) ==
    /\ comboboxes' = Append(comboboxes, Combobox(<< >>))
    /\ combobox_values' = Append(vals, "")

\* ComboboxList._add_item, called while the StringVars hold `vals`
_add_item(vals) ==
    /\ comboboxes' = Append(comboboxes, Combobox(options))
    /\ combobox_values' = Append(vals, "")

\* The trace deleting the widget but leaving its value holder in the list
on_combobox_selected_keep_holder(index, vals) ==
    IF vals[index] = "" /\ Len(comboboxes) > 1
    THEN /\ comboboxes' = RemoveAt(comboboxes, index)
         /\ combobox_values' = vals
    ELSE IF Len(comboboxes) = index
         THEN _add_item(vals)
         ELSE /\ combobox_values' = vals
              /\ UNCHANGED comboboxes

\* The trace never appending a slot
on_combobox_selected_no_append(index, vals) ==
    IF vals[index] = "" /\ Len(comboboxes) > 1
    THEN /\ comboboxes' = RemoveAt(comboboxes, index)
         /\ combobox_values' = RemoveAt(vals, index)
    ELSE /\ combobox_values' = vals
         /\ UNCHANGED comboboxes

\* The 'w' trace of the StringVar of one combobox, run when the StringVars
\* hold `vals` (the write has been made).  The widgets are distinct objects
\* kept in creation order, so the closure's `combobox` is known by `index`,
\* the position self.comboboxes.index(combobox) finds it at.
on_combobox_selected(index, vals) ==
    IF vals[index] = "" /\ Len(comboboxes) > 1
    THEN /\ comboboxes' = RemoveAt(comboboxes, index)
         /\ combobox_values' = RemoveAt(vals, index)
    ELSE IF Len(comboboxes) = index
         THEN _add_item(vals)
         ELSE /\ combobox_values' = vals
              /\ UNCHANGED comboboxes

\* Whether the trace of slot i, about to receive `v`, appends a slot.
Appends(i, v) ==
    /\ ~(v = "" /\ Len(comboboxes) > 1)
    /\ Len(comboboxes) = i

\* A write of `v` to the StringVar bound to slot i, and its trace.
WriteValue(i, v) ==
    /\ Appends(i, v) => Len(comboboxes) < MaxSlots
    /\ on_combobox_selected(i, [combobox_values EXCEPT ![i] = v])
    /\ ev' = [op |-> "write", index |-> i, len |-> Len(comboboxes),
              old |-> combobox_values[i], new |-> v]
    /\ calls' = << >>
    /\ raised' = "none"
    /\ UNCHANGED <<options, project, project_options, start_at, ctlVars, timerVars>>

\* The user types in slot i: the entry writes the variable when its text
\* changes.
TypeText(i, v) ==
    /\ i \in 1..Len(comboboxes)
    /\ v # combobox_values[i]
    /\ WriteValue(i, v)

\* The user picks entry k of the drop-down list of slot i: the combobox
\* writes that entry to the variable, whatever the text was.
SelectOption(i, k) ==
    /\ i \in 1..Len(comboboxes)
    /\ k \in 1..Len(comboboxes[i].values)
    /\ WriteValue(i, comboboxes[i].values[k])

\* ---------------------------------------------------------------- external tool
\* get_current_start_time applied to one output of `watson status`
StatusRaises(out) ==
    /\ ~out.marker
    /\ \/ Len(out.groups) # 1
       \/ out.groups[1] = Junk

\* strptime(...).replace(tzinfo=None): the wall-clock reading, offset dropped
ParseStatus(out) ==
    IF out.marker THEN None ELSE Datetime(out.groups[1].wall)

\* start_frame: the operation handed to the external tool
start_frame(proj, tags, no_gap) ==
    [op |-> "start", project |-> proj, tags |-> tags,
     no_gap_str |-> IF no_gap # 0 THEN "--no-gap" ELSE ""]

stop_frame == [op |-> "stop"]

\* ---------------------------------------------------------------- TimerLabelUpdater
\* str(timedelta(seconds=sec)) for sec >= 0: "H:MM:SS", preceded by
\* "N day(s), " when days is not 0.
TimedeltaStr(sec) ==
    [days |-> sec \div 86400,
     hours |-> (sec % 86400) \div 3600,
     minutes |-> (sec % 3600) \div 60,
     seconds |-> sec % 60]

\* datetime.now().replace(microsecond=0) - self.start_time, or timedelta()
Elapsed(now, start) ==
    IF start # None THEN now.sec - start.wall ELSE 0

\* set_start_time that also refreshes the label, scheduling a second chain
set_start_time_and_update(t) ==
    /\ start_time' = t
    /\ label' = TimedeltaStr(0)
    /\ pending' = pending + 1

\* TimerLabelUpdater.set_start_time
set_start_time(t) ==
    /\ start_time' = t
    /\ UNCHANGED timerVars

\* _update_label that renders but does not schedule itself again
_update_label_once(now, queued) ==
    /\ label' = TimedeltaStr(Elapsed(now, start_time))
    /\ pending' = queued

\* TimerLabelUpdater._update_label, run at clock reading `now` while
\* `queued` other callbacks are scheduled
_update_label(now, queued) ==
    /\ label' = TimedeltaStr(Elapsed(now, start_time))
    /\ pending' = queued + 1

\* Whether the last event called set_start_time.
CalledSet ==
    \/ ev.op = "stop"
    \/ ev.op = "start" /\ ev.project # "" /\ raised = "none"

\* The event loop runs a scheduled _update_label callback.
Tick(now) ==
    /\ pending >= 1
    /\ _update_label(now, pending - 1)
    /\ ev' = [op |-> "tick", now |-> now.sec,
              twice |-> (CalledSet /\ ev.after_set)]
    /\ calls' = << >>
    /\ raised' = "none"
    /\ UNCHANGED <<listVars, project, project_options, start_at,
                   start_time, start_enabled, stop_enabled>>

\* ---------------------------------------------------------------- commands
SetProject(p) ==
    /\ p # project
    /\ project' = p
    /\ ev' = [op |-> "project"]
    /\ calls' = << >>
    /\ raised' = "none"
    /\ UNCHANGED <<listVars, project_options, start_at, ctlVars, timerVars>>

SetStartAt(c) ==
    /\ c # start_at
    /\ start_at' = c
    /\ ev' = [op |-> "start_at"]
    /\ calls' = << >>
    /\ raised' = "none"
    /\ UNCHANGED <<listVars, project, project_options, ctlVars, timerVars>>

\* on_start_commanded without the empty-project check
on_start_commanded_no_check(out) ==
    /\ calls' = <<start_frame(project, get_values, start_at),
                  [op |-> "status"]>>
    /\ IF StatusRaises(out)
       THEN /\ raised' = "Exception"
            /\ UNCHANGED <<ctlVars, timerVars>>
       ELSE /\ raised' = "none"
            /\ set_start_time(ParseStatus(out))
            /\ start_enabled' = FALSE
            /\ stop_enabled' = TRUE

\* on_start_commanded reading the status before it starts the frame
on_start_commanded_status_first(out) ==
    IF project = ""
    THEN /\ raised' = "showerror"
         /\ calls' = << >>
         /\ UNCHANGED <<ctlVars, timerVars>>
    ELSE /\ calls' = <<[op |-> "status"],
                       start_frame(project, get_values, start_at)>>
         /\ IF StatusRaises(out)
            THEN /\ raised' = "Exception"
                 /\ UNCHANGED <<ctlVars, timerVars>>
            ELSE /\ raised' = "none"
                 /\ set_start_time(ParseStatus(out))
                 /\ start_enabled' = FALSE
                 /\ stop_enabled' = TRUE

\* on_start_commanded switching the buttons before it queries the status
on_start_commanded_buttons_first(out) ==
    IF project = ""
    THEN /\ raised' = "showerror"
         /\ calls' = << >>
         /\ UNCHANGED <<ctlVars, timerVars>>
    ELSE /\ calls' = <<start_frame(project, get_values, start_at),
                       [op |-> "status"]>>
         /\ start_enabled' = FALSE
         /\ stop_enabled' = TRUE
         /\ IF StatusRaises(out)
            THEN /\ raised' = "Exception"
                 /\ UNCHANGED <<start_time, timerVars>>
            ELSE /\ raised' = "none"
                 /\ set_start_time(ParseStatus(out))

\* on_start_commanded, with `out` the output of the status query it makes
on_start_commanded(out) ==
    IF project = ""
    THEN /\ raised' = "showerror"
         /\ calls' = << >>
         /\ UNCHANGED <<ctlVars, timerVars>>
    ELSE /\ calls' = <<start_frame(project, get_values, start_at),
                       [op |-> "status"]>>
         /\ IF StatusRaises(out)
            THEN /\ raised' = "Exception"
                 /\ UNCHANGED <<ctlVars, timerVars>>
            ELSE /\ raised' = "none"
                 /\ set_start_time(ParseStatus(out))
                 /\ start_enabled' = FALSE
                 /\ stop_enabled' = TRUE

StartCommand(out) ==
    /\ start_enabled
    /\ on_start_commanded(out)
    /\ ev' = IF project = ""
             THEN [op |-> "start", project |-> project, after_set |-> FALSE]
             ELSE [op |-> "start", project |-> project, status |-> out,
                   after_set |-> CalledSet]
    /\ UNCHANGED <<listVars, project, project_options, start_at>>

\* on_stop_commanded leaving the Stop button enabled
on_stop_commanded_stop_stays(projs, tags) ==
    /\ calls' = <<stop_frame, [op |-> "projects"], [op |-> "tags"]>>
    /\ project_options' = projs
    /\ set_options(tags)
    /\ set_start_time(None)
    /\ start_enabled' = TRUE
    /\ stop_enabled' = stop_enabled
    /\ raised' = "none"

\* on_stop_commanded, with the outputs of the two list queries it makes
on_stop_commanded(projs, tags) ==
    /\ calls' = <<stop_frame, [op |-> "projects"], [op |-> "tags"]>>
    /\ project_options' = projs
    /\ set_options(tags)
    /\ set_start_time(None)
    /\ start_enabled' = TRUE
    /\ stop_enabled' = FALSE
    /\ raised' = "none"

StopCommand(projs, tags) ==
    /\ stop_enabled
    /\ on_stop_commanded(projs, tags)
    /\ ev' = [op |-> "stop", projects |-> projs, tags |-> tags,
              running |-> start_time # None, after_set |-> CalledSet]
    /\ UNCHANGED <<combobox_values, project, start_at>>

\* A report command that also resets the timer
show_report_resets(cmd, report) ==
    /\ calls' = <<[op |-> cmd]>>
    /\ raised' = "none"
    /\ ev' = [op |-> cmd, report |-> report]
    /\ start_time' = None
    /\ UNCHANGED <<listVars, project, project_options, start_at,
                   start_enabled, stop_enabled, timerVars>>

\* show_log / show_csv: fetch a report and show it in a dialog
show_report(cmd, report) ==
    /\ calls' = <<[op |-> cmd]>>
    /\ raised' = "none"
    /\ ev' = [op |-> cmd, report |-> report]
    /\ UNCHANGED <<listVars, project, project_options, start_at, ctlVars, timerVars>>

ShowLog(report) == show_report("log", report)

ShowCsv(report) == show_report("report --csv", report)

\* ---------------------------------------------------------------- startup
\* Module level, lines 127-167: the lists are queried, the tag list is built
\* with one empty slot and given the tag options, status is queried once and
\* the buttons are set from it; the TimerLabelUpdater constructor renders
\* the label once and schedules the first tick.  A status output that makes
\* get_current_start_time raise ends the program before the window exists.
Init ==
    \E projs \in ProjectLists, tags \in TagLists, out \in StatusOutputs,
       now \in ClockReadings :
        /\ ~StatusRaises(out)
        /\ label = TimedeltaStr(Elapsed(now, ParseStatus(out)))
        /\ pending = 1
        /\ project_options = projs
        /\ project = IF projs = << >> THEN "" ELSE projs[1]
        /\ comboboxes = <<Combobox(tags)>>
        /\ combobox_values = <<"">>
        /\ options = tags
        /\ start_at = 0
        /\ start_time = ParseStatus(out)
        /\ start_enabled = (ParseStatus(out) = None)
        /\ stop_enabled = (ParseStatus(out) # None)
        /\ calls = <<[op |-> "projects"], [op |-> "tags"], [op |-> "status"]>>
        /\ raised = "none"
        /\ ev = [op |-> "startup", status |-> out]

Next ==
    \/ \E i \in 1..MaxSlots, v \in TagTexts : TypeText(i, v)
    \/ \E i \in 1..MaxSlots, k \in 1..Len(options) : SelectOption(i, k)
    \/ \E p \in ProjectTexts : SetProject(p)
    \/ \E c \in {0, 1} : SetStartAt(c)
    \/ \E out \in StatusOutputs : StartCommand(out)
    \/ \E projs \in ProjectLists, tags \in TagLists : StopCommand(projs, tags)
    \/ \E r \in ReportTexts : ShowLog(r)
    \/ \E r \in ReportTexts : ShowCsv(r)
    \/ \E now \in ClockReadings : Tick(now)

Spec == Init /\ [][Next]_vars

\* The program when every write to a slot changes its text (typing): the
\* drop-down, which can rewrite the text a slot already has, is not used.
EditNext ==
    \/ \E i \in 1..MaxSlots, v \in TagTexts : TypeText(i, v)
    \/ \E p \in ProjectTexts : SetProject(p)
    \/ \E c \in {0, 1} : SetStartAt(c)
    \/ \E out \in StatusOutputs : StartCommand(out)
    \/ \E projs \in ProjectLists, tags \in TagLists : StopCommand(projs, tags)
    \/ \E r \in ReportTexts : ShowLog(r)
    \/ \E r \in ReportTexts : ShowCsv(r)
    \/ \E now \in ClockReadings : Tick(now)

EditSpec == Init /\ [][EditNext]_vars

\* The Tk event loop runs a scheduled `after` callback once it is due.
FairSpec == Spec /\ WF_vars(\E now \in ClockReadings : Tick(now))

\* ---------------------------------------------------------------- types
TypeOK ==
    /\ Len(comboboxes) \in 1..MaxSlots
    /\ Len(combobox_values) = Len(comboboxes)
    /\ \A i \in 1..Len(comboboxes) : combobox_values[i] \in TagTexts
    /\ start_time \in {None} \cup {Datetime(w) : w \in 1..MaxWall}
    /\ start_enabled \in BOOLEAN /\ stop_enabled \in BOOLEAN
    /\ pending \in Nat
    /\ label.seconds \in 0..59 /\ label.minutes \in 0..59

\* ---------------------------------------------------------------- tag list
\* Positions of the slots whose text is empty.
EmptySlots == {i \in 1..Len(comboboxes) : SlotTexts[i] = ""}

\* The non-empty slot texts, in slot order.
NonEmptyTexts == SelectSeq(SlotTexts, LAMBDA v : v # "")

\* C1: the tag list always has at least one slot, at most one slot is
\* empty, and every slot before the last is non-empty.
C1_AtMostOneEmptyAndLast ==
    /\ Len(comboboxes) >= 1
    /\ Cardinality(EmptySlots) <= 1
    /\ \A i \in 1..(Len(comboboxes) - 1) : SlotTexts[i] # ""

\* C2: get_values() is exactly the non-empty slot texts in slot order, and
\* none of its elements is the empty string.
C2_GetValuesOmitsEmpty ==
    /\ get_values = NonEmptyTexts
    /\ \A k \in 1..Len(get_values) : get_values[k] # ""

\* C3: a write that empties a non-empty slot that is not the last removes
\* exactly that widget and its value holder; the other slots keep their
\* texts and their order.
C3_InteriorClearRemovesSlot ==
    [][(/\ ev'.op = "write"
        /\ ev'.index < Len(comboboxes)
        /\ ev'.old # ""
        /\ ev'.new = "")
       => (/\ Len(comboboxes') = Len(comboboxes) - 1
           /\ comboboxes' = RemoveAt(comboboxes, ev'.index)
           /\ combobox_values' = RemoveAt(combobox_values, ev'.index)
           /\ SlotTexts' = RemoveAt(SlotTexts, ev'.index))]_vars

C3_Witness ==
    /\ ev.op = "write"
    /\ ev.index = 1
    /\ ev.len = 3
    /\ ev.old = "x"
    /\ ev.new = ""
    /\ SlotTexts = <<"y", "">>

\* C4: a write that makes the empty last slot non-empty appends exactly one
\* empty slot carrying the list's options; every existing slot stays, and
\* none but the written one changes its text.
C4_LastFilledAppendsSlot ==
    [][(/\ ev'.op = "write"
        /\ ev'.index = Len(comboboxes)
        /\ ev'.old = ""
        /\ ev'.new # "")
       => (/\ Len(comboboxes') = Len(comboboxes) + 1
           /\ Len(combobox_values') = Len(combobox_values) + 1
           /\ SubSeq(comboboxes', 1, Len(comboboxes)) = comboboxes
           /\ Last(comboboxes').values = options
           /\ Last(SlotTexts') = ""
           /\ \A i \in 1..Len(comboboxes) :
                 SlotTexts'[i] = IF i = Len(comboboxes) THEN ev'.new
                                 ELSE SlotTexts[i])]_vars

C4_Witness ==
    /\ ev.op = "write"
    /\ ev.index = ev.len
    /\ ev.old = ""
    /\ ev.new = "y"
    /\ SlotTexts = <<"x", "y", "">>
    /\ options # << >>
    /\ Last(comboboxes).values = options

\* ---------------------------------------------------------------- controller
\* C5: whenever the event loop is idle, exactly one of the Start and Stop
\* buttons is enabled.
C5_ExactlyOneButtonEnabled == start_enabled # stop_enabled

C5_Witness ==
    /\ ev.op = "start"
    /\ raised = "Exception"
    /\ start_enabled
    /\ ~stop_enabled

\* C6: Start is enabled exactly when the timer's start time is None.
C6_StartEnabledIffIdle == start_enabled <=> (start_time = None)

\* C7: a Start command with an empty project issues no external operation,
\* leaves the start time (None) and both buttons as they were, and shows the
\* error box.
C7_EmptyProjectRejected ==
    [][(ev'.op = "start" /\ ev'.project = "")
       => (/\ calls' = << >>
           /\ raised' = "showerror"
           /\ start_time = None
           /\ start_time' = start_time
           /\ start_enabled' = start_enabled
           /\ stop_enabled' = stop_enabled)]_vars

C7_Witness ==
    /\ ev.op = "start"
    /\ ev.project = ""
    /\ raised = "showerror"
    /\ calls = << >>

\* The start operations among the calls of the last handler.
StartCalls == {k \in 1..Len(calls) : calls[k].op = "start"}

\* C8: a Start command with a non-empty project issues exactly one start
\* operation, with that project, the non-empty tag values in slot order,
\* and --no-gap exactly when "Last stop time" is chosen.
C8_StartCarriesProjectTagsGap ==
    (ev.op = "start" /\ ev.project # "")
    => /\ Cardinality(StartCalls) = 1
       /\ \A k \in StartCalls :
             calls[k] = [op |-> "start", project |-> project,
                         tags |-> NonEmptyTexts,
                         no_gap_str |-> IF start_at = 1 THEN "--no-gap"
                                        ELSE ""]

\* An output of `watson status` that reports one active timestamp.
ActiveStatus(out) ==
    /\ ~out.marker
    /\ Len(out.groups) = 1
    /\ out.groups[1] \in Timestamps

\* C9: after a Start command with a non-empty project the status query is
\* issued after the start operation, and if it reports an active timestamp
\* the start time is that timestamp's reading, Start is disabled and Stop
\* is enabled.
C9_StartThenStatusThenRunning ==
    (ev.op = "start" /\ ev.project # "")
    => /\ Len(calls) = 2
       /\ calls[1].op = "start"
       /\ calls[2].op = "status"
       /\ ActiveStatus(ev.status)
          => /\ start_time = Datetime(ev.status.groups[1].wall)
             /\ ~start_enabled
             /\ stop_enabled

C9_Witness ==
    /\ ev.op = "start"
    /\ ev.project # ""
    /\ ActiveStatus(ev.status)
    /\ ev.status.groups[1].wall = MaxWall
    /\ start_time = Datetime(MaxWall)
    /\ stop_enabled

\* C10: a Stop command while running issues one stop operation, then
\* queries the projects and the tags, installs both results as the
\* selectors' options, clears the start time, enables Start and disables
\* Stop.
C10_StopRefreshesAndIdles ==
    [][(ev'.op = "stop" /\ start_time # None)
       => (/\ calls' = <<[op |-> "stop"], [op |-> "projects"],
                         [op |-> "tags"]>>
           /\ project_options' = ev'.projects
           /\ options' = ev'.tags
           /\ \A i \in 1..Len(comboboxes') :
                 comboboxes'[i].values = ev'.tags
           /\ start_time' = None
           /\ start_enabled'
           /\ ~stop_enabled')]_vars

C10_Witness ==
    /\ ev.op = "stop"
    /\ ev.running
    /\ Len(comboboxes) = 2
    /\ \A i \in 1..Len(comboboxes) : comboboxes[i].values = <<"x", "">>
    /\ project_options = <<"Alpha">>
    /\ start_time = None
    /\ start_enabled

\* C11: a stop operation is issued only while the start time is set, and
\* a start operation only while it is None.
C11_NoStopWhenIdleNoStartWhenRunning ==
    [][/\ (ev'.op = "stop" => start_time # None)
       /\ ((ev'.op = "start" /\ StartCalls' # {}) => start_time = None)]_vars

\* ---------------------------------------------------------------- status parsing
\* Positions of the well-formed timestamps in a status output.
TimestampsIn(out) == {k \in 1..Len(out.groups) : out.groups[k] \in Timestamps}

\* C12: parsing the status output read by a Start command gives None when
\* the marker is present; otherwise the timestamp when exactly one
\* timestamp occurs, and an exception when none or several occur.
C12_StatusParsing ==
    (ev.op = "start" /\ ev.project # "")
    => IF ev.status.marker
       THEN raised = "none" /\ start_time = None
       ELSE IF Cardinality(TimestampsIn(ev.status)) = 1
            THEN /\ raised = "none"
                 /\ \A k \in TimestampsIn(ev.status) :
                       start_time = Datetime(ev.status.groups[k].wall)
            ELSE raised = "Exception"

\* ---------------------------------------------------------------- timer
\* C13: a handler that calls set_start_time neither renders nor schedules
\* anything; a tick is the single scheduled callback, renders once, from
\* the start time set last, and leaves one callback scheduled.
C13_SetStartTimeTakesEffectAtTick ==
    [][/\ ev'.op \in {"start", "stop"}
          => (label' = label /\ pending' = pending)
       /\ ev'.op = "tick"
          => (/\ pending = 1
              /\ pending' = 1
              /\ start_time' = start_time
              /\ label' = IF start_time = None THEN TimedeltaStr(0)
                          ELSE TimedeltaStr(ev'.now - start_time.wall))]_vars

C13_Witness ==
    /\ ev.op = "tick"
    /\ ev.twice
    /\ start_time = Datetime(MaxWall)
    /\ ev.now = MaxWall + 125
    /\ label = [days |-> 0, hours |-> 0, minutes |-> 2, seconds |-> 5]

\* "H:MM:SS" with the hour count not wrapping at 24.
HoursMinutesSeconds(sec) ==
    [days |-> 0,
     hours |-> sec \div 3600,
     minutes |-> (sec % 3600) \div 60,
     seconds |-> sec % 60]

\* C14: a tick renders the whole seconds elapsed since the start time (zero
\* when it is None) as hours:minutes:seconds with unbounded hours.
C14_RendersHoursMinutesSeconds ==
    ev.op = "tick"
    => label = IF start_time = None THEN HoursMinutesSeconds(0)
               ELSE HoursMinutesSeconds(ev.now - start_time.wall)

\* C19: exactly one _update_label callback is scheduled at any time,
\* whatever handler runs, and ticks occur again and again.
C19_OneTickPendingForever ==
    /\ [](pending = 1)
    /\ []<>(ev.op = "tick")

C19_Witness ==
    /\ ev.op = "tick"
    /\ pending = 1
    /\ ~ev.twice
    /\ start_time = None
    /\ stop_enabled

\* ---------------------------------------------------------------- frames
\* C15: every slot, whenever created, shows the list's current options;
\* set_options (run by Stop) installs the new list in the list and in every
\* slot and changes neither the number of slots nor their texts.
C15_SetOptionsReachesEverySlot ==
    /\ [](\A i \in 1..Len(comboboxes) : comboboxes[i].values = options)
    /\ [][ev'.op = "stop"
          => (/\ options' = ev'.tags
              /\ \A i \in 1..Len(comboboxes') :
                    comboboxes'[i].values = ev'.tags
              /\ Len(comboboxes') = Len(comboboxes)
              /\ combobox_values' = combobox_values)]_vars

C15_Witness ==
    /\ ev.op = "write"
    /\ ev.index = ev.len
    /\ ev.len = 2
    /\ Len(comboboxes) = 3
    /\ options = <<"x", "">>
    /\ \A i \in 1..3 : comboboxes[i].values = <<"x", "">>
    /\ start_enabled

\* C16: Show Log and Show CSV can be run in every state, issue only their
\* report operation, and leave the start time, the buttons, the option
\* sets and the entered values as they were.
C16_ReportsAreReadOnly ==
    /\ [](/\ ENABLED (\E r \in ReportTexts : ShowLog(r))
          /\ ENABLED (\E r \in ReportTexts : ShowCsv(r)))
    /\ [][ev'.op \in {"log", "report --csv"}
          => (/\ calls' = <<[op |-> ev'.op]>>
              /\ UNCHANGED <<start_time, start_enabled, stop_enabled,
                             options, project_options, comboboxes,
                             combobox_values, project>>)]_vars

C16_Witness ==
    /\ ev.op = "report --csv"
    /\ start_time # None
    /\ stop_enabled
    /\ calls = <<[op |-> "report --csv"]>>

\* C17: a write changes the slot structure only when a slot before the
\* last becomes empty (removed) or the empty last slot becomes non-empty
\* (one appended); any other write leaves the number and order of slots.
C17_OnlyTwoStructuralChanges ==
    [][ev'.op = "write"
       => IF ev'.index < Len(comboboxes) /\ ev'.new = ""
          THEN SlotTexts' = RemoveAt(SlotTexts, ev'.index)
          ELSE IF /\ ev'.index = Len(comboboxes)
                  /\ ev'.old = ""
                  /\ ev'.new # ""
               THEN SlotTexts' = Append([SlotTexts EXCEPT ![ev'.index] = ev'.new], "")
               ELSE SlotTexts' = [SlotTexts EXCEPT ![ev'.index] = ev'.new]]_vars

\* C18: a Start command whose status query raises leaves the start time
\* and both buttons as they were.
C18_FailedStatusLeavesState ==
    [][(ev'.op = "start" /\ raised' = "Exception")
       => (/\ start_time' = start_time
           /\ start_enabled' = start_enabled
           /\ stop_enabled' = stop_enabled)]_vars

C18_Witness ==
    /\ ev.op = "start"
    /\ raised = "Exception"
    /\ ev.status.groups = <<Junk>>
    /\ start_time = None
    /\ start_enabled
    /\ Len(calls) = 2

\* C20: when every write changes the text of its slot, the last slot is
\* empty, every other slot is non-empty, the number of slots is the number
\* of non-empty values plus one, and the two parallel lists are equally
\* long.
C20_LastEmptyOthersFilled ==
    /\ Last(SlotTexts) = ""
    /\ \A i \in 1..(Len(comboboxes) - 1) : SlotTexts[i] # ""
    /\ Len(comboboxes) = Len(NonEmptyTexts) + 1
    /\ Len(comboboxes) = Len(combobox_values)

C20_Witness ==
    /\ ev.op = "write"
    /\ ev.len = 3
    /\ ev.index = 2
    /\ ev.new = ""
    /\ combobox_values = <<"x", "">>
    /\ Len(comboboxes) = 2

====
